---- MODULE Spec2Model ----
(***************************************************************************)
(* Streak service: ingestion of focus sessions (AcceptFocusSession),       *)
(* splitting of sessions at civil-day boundaries, and the per-user streak  *)
(* aggregate (UserStreak).                                                 *)
(*                                                                         *)
(* Representation.                                                         *)
(*  - A JavaScript Date is a record [day, ms]: whole days since 1970-01-01 *)
(*    and milliseconds within that day (the same instant in mixed radix,   *)
(*    so that no number leaves the 32-bit range).  The process timezone is *)
(*    UTC, so the "local" fields date-fns reads are the UTC fields.        *)
(*  - A date string 'yyyy-MM-dd' is the tuple <<y, m, d>>; null is <<>>.   *)
(*  - An IANA timezone is a name with a fixed UTC offset (no DST rule is   *)
(*    modelled).                                                           *)
(***************************************************************************)
EXTENDS Integers, Sequences, FiniteSets, TLC

NULL == <<>>

MsPerMinute == 60000
MinutesPerDay == 1440
MsPerDay == 86400000

(***************************************************************************)
(* Calendar arithmetic behind date-fns (proleptic Gregorian calendar).     *)
(***************************************************************************)
\* Days since 1970-01-01 of the civil date <<y, m, d>>.
DaysFromCivil(c) ==
  LET y   == IF c[2] <= 2 THEN c[1] - 1 ELSE c[1]
      era == y \div 400
      yoe == y - era * 400
      mp  == IF c[2] > 2 THEN c[2] - 3 ELSE c[2] + 9
      doy == (153 * mp + 2) \div 5 + c[3] - 1
      doe == yoe * 365 + yoe \div 4 - yoe \div 100 + doy
  IN  era * 146097 + doe - 719468

\* Civil date <<y, m, d>> of a day number.
CivilFromDays(n) ==
  LET z   == n + 719468
      era == z \div 146097
      doe == z - era * 146097
      yoe == (doe - doe \div 1460 + doe \div 36524 - doe \div 146096) \div 365
      doy == doe - (365 * yoe + yoe \div 4 - yoe \div 100)
      mp  == (5 * doy + 2) \div 153
      d   == doy - (153 * mp + 2) \div 5 + 1
      m   == IF mp < 10 THEN mp + 3 ELSE mp - 9
      y   == yoe + era * 400 + (IF m <= 2 THEN 1 ELSE 0)
  IN  <<y, m, d>>

(***************************************************************************)
(* IDateProvider (FakeDateProvider delegating to date-fns / date-fns-tz).  *)
(***************************************************************************)
MkDate(day, ms) == [day |-> day + ms \div MsPerDay, ms |-> ms % MsPerDay]

startOfDay(date) == [day |-> date.day, ms |-> 0]

endOfDay(date) == [day |-> date.day, ms |-> MsPerDay - 1]

addDays(date, amount) == [day |-> date.day + amount, ms |-> date.ms]

isBefore(date, dateToCompare) ==
  \/ date.day < dateToCompare.day
  \/ date.day = dateToCompare.day /\ date.ms < dateToCompare.ms

isAfter(date, dateToCompare) == isBefore(dateToCompare, date)

differenceInCalendarDays(dateLeft, dateRight) ==
  startOfDay(dateLeft).day - startOfDay(dateRight).day

\* Whole minutes between two instants, truncated towards zero.
differenceInMinutes(dateLeft, dateRight) ==
  LET dd == dateLeft.day - dateRight.day
      dm == dateLeft.ms - dateRight.ms
  IN  IF dd > 0 \/ (dd = 0 /\ dm >= 0)
      THEN dd * MinutesPerDay + dm \div MsPerMinute
      ELSE 0 - ((0 - dd) * MinutesPerDay + (0 - dm) \div MsPerMinute)

parseISO(dateString) == [day |-> DaysFromCivil(dateString), ms |-> 0]

format(date) == CivilFromDays(date.day)

(***************************************************************************)
(* UserStreak aggregate.                                                   *)
(***************************************************************************)
UserStreak_create(props) ==
  IF props.currentStreak >= 0 /\ props.longestStreak >= 0
     /\ props.qualifiedDaysCount >= 0
  THEN props
  ELSE NULL

UserStreak_createNew(userId, now) ==
  UserStreak_create([userId |-> userId,
                     currentStreak |-> 0,
                     longestStreak |-> 0,
                     lastQualifiedDate |-> NULL,
                     qualifiedDaysCount |-> 0,
                     updatedAt |-> now])

\* The branches of updateWithQualifiedDate.
firstQualifiedDay(s, qualifiedDate, now) ==
  [s EXCEPT !.currentStreak = 1,
            !.longestStreak = 1,
            !.lastQualifiedDate = qualifiedDate,
            !.qualifiedDaysCount = 1,
            !.updatedAt = now]

\* Variant: a repeated date is counted again.
sameDay_CountsAgain(s, now) ==
  [s EXCEPT !.qualifiedDaysCount = @ + 1,
            !.updatedAt = now]

sameDay(s, now) == [s EXCEPT !.updatedAt = now]

\* Variant: a late date restarts the current streak.
lateArrival_BreaksStreak(s, now) ==
  [s EXCEPT !.currentStreak = 1,
            !.qualifiedDaysCount = @ + 1,
            !.updatedAt = now]

lateArrival(s, now) ==
  [s EXCEPT !.qualifiedDaysCount = @ + 1,
            !.updatedAt = now]

\* Variant: the high-water mark is not raised.
consecutiveDay_KeepsLongest(s, qualifiedDate, now) ==
  [s EXCEPT !.currentStreak = @ + 1,
            !.lastQualifiedDate = qualifiedDate,
            !.qualifiedDaysCount = @ + 1,
            !.updatedAt = now]

consecutiveDay(s, qualifiedDate, now) ==
  [s EXCEPT !.currentStreak = @ + 1,
            !.lastQualifiedDate = qualifiedDate,
            !.qualifiedDaysCount = @ + 1,
            !.longestStreak = IF s.currentStreak + 1 > @
                              THEN s.currentStreak + 1 ELSE @,
            !.updatedAt = now]

\* Variant: a gap also restarts the high-water mark.
brokenStreak_ResetsLongest(s, qualifiedDate, now) ==
  [s EXCEPT !.currentStreak = 1,
            !.longestStreak = 1,
            !.lastQualifiedDate = qualifiedDate,
            !.qualifiedDaysCount = @ + 1,
            !.updatedAt = now]

brokenStreak(s, qualifiedDate, now) ==
  [s EXCEPT !.currentStreak = 1,
            !.lastQualifiedDate = qualifiedDate,
            !.qualifiedDaysCount = @ + 1,
            !.updatedAt = now]

\* Variant: a late date becomes the last qualified date.
updateWithQualifiedDate_LateMovesDate(s, qualifiedDate, now) ==
  IF s.lastQualifiedDate = NULL
  THEN firstQualifiedDay(s, qualifiedDate, now)
  ELSE
    LET newDate  == startOfDay(parseISO(qualifiedDate))
        lastDate == startOfDay(parseISO(s.lastQualifiedDate))
        daysDiff == differenceInCalendarDays(newDate, lastDate)
    IN  IF daysDiff = 0 THEN sameDay(s, now)
        ELSE IF daysDiff < 0
        THEN [lateArrival(s, now) EXCEPT !.lastQualifiedDate = qualifiedDate]
        ELSE IF daysDiff = 1 THEN consecutiveDay(s, qualifiedDate, now)
        ELSE brokenStreak(s, qualifiedDate, now)

updateWithQualifiedDate(s, qualifiedDate, now) ==
  IF s.lastQualifiedDate = NULL
  THEN firstQualifiedDay(s, qualifiedDate, now)
  ELSE
    LET newDate  == startOfDay(parseISO(qualifiedDate))
        lastDate == startOfDay(parseISO(s.lastQualifiedDate))
        daysDiff == differenceInCalendarDays(newDate, lastDate)
    IN  IF daysDiff = 0 THEN sameDay(s, now)
        ELSE IF daysDiff < 0 THEN lateArrival(s, now)
        ELSE IF daysDiff = 1 THEN consecutiveDay(s, qualifiedDate, now)
        ELSE brokenStreak(s, qualifiedDate, now)

\* Variant: the last qualified date survives the reset.
resetStreak_KeepsDate(s, now) ==
  [s EXCEPT !.currentStreak = 0,
            !.updatedAt = now]

resetStreak(s, now) ==
  [s EXCEPT !.currentStreak = 0,
            !.lastQualifiedDate = NULL,
            !.updatedAt = now]

hasActiveStreak(s) == s.currentStreak > 0 /\ s.lastQualifiedDate # NULL

(***************************************************************************)
(* Timezones: toZonedTime / fromZonedTime of date-fns-tz.                  *)
(***************************************************************************)
Timezones == {"UTC", "America/New_York"}

\* UTC offset of the zone in minutes (America/New_York on standard time).
TimezoneOffsetMinutes(timezone) ==
  IF timezone = "America/New_York" THEN 0 - 300 ELSE 0

toZonedTime(date, timezone) ==
  MkDate(date.day, date.ms + TimezoneOffsetMinutes(timezone) * MsPerMinute)

fromZonedTime(date, timezone) ==
  MkDate(date.day, date.ms - TimezoneOffsetMinutes(timezone) * MsPerMinute)

(***************************************************************************)
(* FocusSession entity.                                                    *)
(***************************************************************************)
\* FocusSession.create: schema validation and the end-after-start rule;
\* NULL stands for the thrown error.
FocusSession_create(props) ==
  IF /\ props.sessionId # ""
     /\ props.durationMinutes > 0
     /\ props.timezone # ""
     /\ isAfter(props.endTime, props.startTime)
  THEN props
  ELSE NULL

FocusSession_createNew(sessionId, userId, startTime, endTime, timezone, now) ==
  FocusSession_create([sessionId |-> sessionId,
                       userId |-> userId,
                       startTime |-> startTime,
                       endTime |-> endTime,
                       durationMinutes |-> differenceInMinutes(endTime, startTime),
                       timezone |-> timezone,
                       createdAt |-> now])

\* The while loop of splitByDay; a NULL element is a segment whose
\* construction throws.
RECURSIVE splitLoop(_, _, _, _)
splitLoop(session, currentStart, zonedEnd, segmentIndex) ==
  IF ~isBefore(currentStart, zonedEnd) THEN <<>>
  ELSE
    LET currentDayEnd == endOfDay(currentStart)
        currentEnd == IF isBefore(currentDayEnd, zonedEnd) THEN currentDayEnd
                                                           ELSE zonedEnd
        utcSegmentStart == fromZonedTime(currentStart, session.timezone)
        utcSegmentEnd == fromZonedTime(currentEnd, session.timezone)
        segmentDuration == differenceInMinutes(utcSegmentEnd, utcSegmentStart)
        segmentSessionId == session.sessionId \o "-day" \o ToString(segmentIndex)
        segment == FocusSession_create([sessionId |-> segmentSessionId,
                                        userId |-> session.userId,
                                        startTime |-> utcSegmentStart,
                                        endTime |-> utcSegmentEnd,
                                        durationMinutes |-> segmentDuration,
                                        timezone |-> session.timezone,
                                        createdAt |-> session.createdAt])
    IN  <<segment>> \o splitLoop(session,
                                 addDays(startOfDay(currentStart), 1),
                                 zonedEnd,
                                 segmentIndex + 1)

\* Variant: the session is never split.
splitByDay_Unsplit(session) == <<session>>

splitByDay(session) ==
  LET zonedStart == toZonedTime(session.startTime, session.timezone)
      zonedEnd == toZonedTime(session.endTime, session.timezone)
      startDayEnd == endOfDay(zonedStart)
      spansMultipleDays == isAfter(zonedEnd, startDayEnd)
  IN  IF ~spansMultipleDays THEN <<session>>
      ELSE splitLoop(session, zonedStart, zonedEnd, 0)

\* Variant: the date is read off the UTC instant.
getQualifiedDate_Utc(session) == format(session.startTime)

getQualifiedDate(session) ==
  format(toZonedTime(session.startTime, session.timezone))

(***************************************************************************)
(* Repositories.  The session store maps session_id to the stored session; *)
(* the streak store maps user_id to the user_streaks row.                  *)
(***************************************************************************)
\* Variant: the duplicate-key test is missing.
has_Never(store, sessionId) == FALSE

\* The primary-key test behind save (Map.has / unique violation P2002).
has(store, sessionId) == sessionId \in DOMAIN store

findById(store, sessionId) ==
  IF sessionId \in DOMAIN store THEN store[sessionId] ELSE NULL

RECURSIVE SumDurations(_, _)
SumDurations(store, ids) ==
  IF ids = {} THEN 0
  ELSE LET id == CHOOSE i \in ids : TRUE
       IN  store[id].durationMinutes + SumDurations(store, ids \ {id})

\* Variant: the sum runs over every user's sessions.
getTotalMinutesForDate_AnyUser(store, userId, date, timezone) ==
  LET dayStart == fromZonedTime(startOfDay(parseISO(date)), timezone)
      dayEnd == fromZonedTime(endOfDay(parseISO(date)), timezone)
      rows == {id \in DOMAIN store :
                 /\ ~isBefore(store[id].startTime, dayStart)
                 /\ ~isAfter(store[id].startTime, dayEnd)}
  IN  SumDurations(store, rows)

\* SqlFocusSessionRepository.getTotalMinutesForDate
getTotalMinutesForDate(store, userId, date, timezone) ==
  LET dayStart == fromZonedTime(startOfDay(parseISO(date)), timezone)
      dayEnd == fromZonedTime(endOfDay(parseISO(date)), timezone)
      rows == {id \in DOMAIN store :
                 /\ store[id].userId = userId
                 /\ ~isBefore(store[id].startTime, dayStart)
                 /\ ~isAfter(store[id].startTime, dayEnd)}
  IN  SumDurations(store, rows)

\* InMemoryFocusSessionRepository.getTotalMinutesForDate; the timezone
\* argument is not used, each session is dated in its own timezone.
InMemory_getTotalMinutesForDate(store, userId, date, timezone) ==
  SumDurations(store, {id \in DOMAIN store :
                         /\ store[id].userId = userId
                         /\ getQualifiedDate(store[id]) = date})

\* SqlUserStreakMapper
toPrisma(domain) ==
  [user_id |-> domain.userId,
   current_streak |-> domain.currentStreak,
   longest_streak |-> domain.longestStreak,
   last_qualified_date |->
     IF domain.lastQualifiedDate # NULL THEN parseISO(domain.lastQualifiedDate)
                                        ELSE NULL,
   qualified_days_count |-> domain.qualifiedDaysCount,
   updated_at |-> domain.updatedAt]

toDomain(prisma) ==
  UserStreak_create([userId |-> prisma.user_id,
                     currentStreak |-> prisma.current_streak,
                     longestStreak |-> prisma.longest_streak,
                     lastQualifiedDate |->
                       IF prisma.last_qualified_date # NULL
                       THEN format(prisma.last_qualified_date)
                       ELSE NULL,
                     qualifiedDaysCount |-> prisma.qualified_days_count,
                     updatedAt |-> prisma.updated_at])

\* Variant: save updates a row but never inserts one.
upsert_UpdateOnly(table, row) ==
  [u \in DOMAIN table |-> IF u = row.user_id THEN row ELSE table[u]]

\* SqlUserStreakRepository.save: upsert on user_id.
upsert(table, row) ==
  [u \in DOMAIN table \cup {row.user_id} |->
     IF u = row.user_id THEN row ELSE table[u]]

findByUserId(table, userId) ==
  IF userId \in DOMAIN table THEN toDomain(table[userId]) ELSE NULL

(***************************************************************************)
(* AcceptFocusSessionCommandHandler helpers.                               *)
(***************************************************************************)
QUALIFIED_DAY_THRESHOLD_MINUTES == 30

\* Variant: the dates come out latest first.
DateStringLess_Descending(a, b) ==
  \/ a[1] > b[1]
  \/ a[1] = b[1] /\ a[2] > b[2]
  \/ a[1] = b[1] /\ a[2] = b[2] /\ a[3] > b[3]

\* 'yyyy-MM-dd' strings compare as their <<y, m, d>> fields, most
\* significant first (the order Array.prototype.sort gives the strings).
DateStringLess(a, b) ==
  \/ a[1] < b[1]
  \/ a[1] = b[1] /\ a[2] < b[2]
  \/ a[1] = b[1] /\ a[2] = b[2] /\ a[3] < b[3]

RECURSIVE SortDates(_)
SortDates(dateSet) ==
  IF dateSet = {} THEN <<>>
  ELSE LET first == CHOOSE a \in dateSet :
                      \A b \in dateSet \ {a} : DateStringLess(a, b)
       IN  <<first>> \o SortDates(dateSet \ {first})

\* Array.from(dateSet).sort() over the segments' qualified dates.
uniqueDatesOf(sessionSegments) ==
  SortDates({getQualifiedDate(sessionSegments[i]) :
               i \in 1..Len(sessionSegments)})

(***************************************************************************)
(* Bounds and inputs of the ingestion model.                               *)
(***************************************************************************)
MaxExecs == 3        \* AcceptSession executions in one behaviour
MaxConcurrent == 2   \* executions in flight at the same time
MaxFaults == 1       \* store operations that fail transiently

Execs == 1..MaxExecs

UtcInstant(civil, minuteOfDay) ==
  [day |-> DaysFromCivil(civil), ms |-> minuteOfDay * MsPerMinute]

\* The clock reading handed out by the date provider.
Now == UtcInstant(<<2025, 1, 20>>, 720)

\* AcceptSession payloads the callers submit:
\*   X  23:00 Jan 15 - 01:00 Jan 16 New York time (crosses local midnight)
\*   Y  10:00 - 10:30 Jan 17 New York time
\*   Z  an empty interval (end = start)
Requests ==
  { [sessionId |-> "X", userId |-> "u1", timezone |-> "America/New_York",
     startTime |-> UtcInstant(<<2025, 1, 16>>, 240),
     endTime |-> UtcInstant(<<2025, 1, 16>>, 360)],
    [sessionId |-> "Y", userId |-> "u1", timezone |-> "America/New_York",
     startTime |-> UtcInstant(<<2025, 1, 17>>, 900),
     endTime |-> UtcInstant(<<2025, 1, 17>>, 930)],
    [sessionId |-> "Z", userId |-> "u2", timezone |-> "UTC",
     startTime |-> UtcInstant(<<2025, 1, 15>>, 600),
     endTime |-> UtcInstant(<<2025, 1, 15>>, 600)] }

(***************************************************************************)
(* State.                                                                  *)
(***************************************************************************)
VARIABLES
  sessions,         \* focus_sessions table: session_id -> stored session
  streaks,          \* user_streaks table: user_id -> row
  pc,               \* per execution: the await point it is suspended at
  command,          \* per execution: command.props (NULL before the call)
  sessionSegments,  \* per execution: result of splitByDay
  uniqueDates,      \* per execution: sorted qualified dates of the segments
  idx,              \* per execution: position in the current for-loop
  userStreak,       \* per execution: the aggregate it loaded
  outcome,          \* per execution: "ok" or the error the caller receives
  faults,           \* number of store operations that failed so far
  repeat,           \* history: the payload was already ingested at call time
  writer,           \* history: <<session_id, execution>> for every insert
  applied,          \* history: dates each execution fed to the aggregate
  committed,        \* history: the execution saved the aggregate
  failedAt,         \* history: the await at which a store operation failed
  retry,            \* history: the call repeats one that failed half-way
  streak,           \* UserStreak under test (entity model)
  prevStreak,       \* its value before the last operation
  history,          \* the operations applied to it, oldest first
  focusSession,     \* FocusSession under test (segmentation model)
  daySegments,      \* what splitByDay returned for it (<<>> before the call)
  queryResult,      \* what the last GetUserStreak query returned (NULL: none)
  streakProps,      \* props handed to UserStreak.create (construction model)
  created           \* [done, value]: whether create ran, and what it returned

handlerVars == <<sessions, streaks, pc, command, sessionSegments, uniqueDates,
                 idx, userStreak, outcome, faults, repeat, writer, applied,
                 committed, failedAt, retry>>

entityVars == <<streak, prevStreak, history>>

splitVars == <<focusSession, daySegments>>

queryVars == <<queryResult>>

createVars == <<streakProps, created>>

vars == <<handlerVars, entityVars, splitVars, queryVars, createVars>>

EmptyTable == [k \in {} |-> NULL]

InitHandler ==
  /\ sessions = EmptyTable
  /\ streaks = EmptyTable
  /\ pc = [e \in Execs |-> "idle"]
  /\ command = [e \in Execs |-> NULL]
  /\ sessionSegments = [e \in Execs |-> <<>>]
  /\ uniqueDates = [e \in Execs |-> <<>>]
  /\ idx = [e \in Execs |-> 0]
  /\ userStreak = [e \in Execs |-> NULL]
  /\ outcome = [e \in Execs |-> "none"]
  /\ faults = 0
  /\ repeat = [e \in Execs |-> FALSE]
  /\ writer = {}
  /\ applied = [e \in Execs |-> {}]
  /\ committed = [e \in Execs |-> FALSE]
  /\ failedAt = [e \in Execs |-> "none"]
  /\ retry = [e \in Execs |-> FALSE]

InitEntity ==
  /\ streak = UserStreak_createNew("u1", 0)
  /\ prevStreak = UserStreak_createNew("u1", 0)
  /\ history = <<>>

NotCreated == [done |-> FALSE, value |-> NULL]

Init ==
  /\ InitHandler
  /\ InitEntity
  /\ focusSession = NULL
  /\ daySegments = <<>>
  /\ queryResult = NULL
  /\ streakProps = NULL
  /\ created = NotCreated

(***************************************************************************)
(* AcceptFocusSessionCommandHandler.execute, one action per await.         *)
(***************************************************************************)
InFlight == {e \in Execs : pc[e] \notin {"idle", "done"}}

\* The payload has been accepted and carried through to the aggregate save.
Ingested(r) ==
  \E e \in Execs : command[e] = r /\ outcome[e] = "ok" /\ committed[e]

\* The execution inserted or updated a row of some table.
Wrote(e) == \E w \in writer : w[3] = e

Persisted(e) == \E w \in writer : w[1] = "focus_sessions" /\ w[3] = e

\* An earlier call with this payload stored a segment and then failed on a
\* store operation.
FailedHalfWay(r) ==
  \E e \in Execs :
    command[e] = r /\ outcome[e] = "StorageError" /\ Persisted(e)

Return(e, result) ==
  /\ pc' = [pc EXCEPT ![e] = "done"]
  /\ outcome' = [outcome EXCEPT ![e] = result]

\* The controller dispatches the command; execute runs up to findById.
Start(e, r) ==
  /\ pc[e] = "idle"
  /\ \A d \in Execs : d < e => pc[d] # "idle"
  /\ Cardinality(InFlight) < MaxConcurrent
  /\ pc' = [pc EXCEPT ![e] = "findById"]
  /\ command' = [command EXCEPT ![e] = r]
  /\ repeat' = [repeat EXCEPT ![e] = Ingested(r)]
  /\ retry' = [retry EXCEPT ![e] = FailedHalfWay(r)]
  /\ UNCHANGED <<sessions, streaks, sessionSegments, uniqueDates, idx,
                 userStreak, outcome, faults, writer, applied, committed,
                 failedAt>>
  /\ UNCHANGED <<entityVars, splitVars, queryVars, createVars>>

\* await findById; then createNew and splitByDay up to the first save.
FindById(e) ==
  /\ pc[e] = "findById"
  /\ LET c == command[e]
         existingSession == findById(sessions, c.sessionId)
         session == FocusSession_createNew(c.sessionId, c.userId, c.startTime,
                                           c.endTime, c.timezone, Now)
         segments == splitByDay(session)
     IN  IF existingSession # NULL
         THEN Return(e, "ok") /\ UNCHANGED <<sessionSegments, idx>>
         ELSE IF session = NULL
         THEN Return(e, "ValidationError") /\ UNCHANGED <<sessionSegments, idx>>
         ELSE IF \E i \in 1..Len(segments) : segments[i] = NULL
         THEN Return(e, "ValidationError") /\ UNCHANGED <<sessionSegments, idx>>
         ELSE /\ sessionSegments' = [sessionSegments EXCEPT ![e] = segments]
              /\ idx' = [idx EXCEPT ![e] = 1]
              /\ pc' = [pc EXCEPT ![e] = "save"]
              /\ UNCHANGED outcome
  /\ UNCHANGED <<sessions, streaks, command, uniqueDates, userStreak, faults,
                 repeat, writer, applied, committed, failedAt, retry>>
  /\ UNCHANGED <<entityVars, splitVars, queryVars, createVars>>

\* await sessionRepository.save(segment), one loop iteration.
SaveSegment(e) ==
  /\ pc[e] = "save"
  /\ LET segment == sessionSegments[e][idx[e]]
     IN  IF has(sessions, segment.sessionId)
         THEN /\ Return(e, "FocusSessionAlreadyExists")
              /\ UNCHANGED <<sessions, writer, idx>>
         ELSE /\ sessions' = [id \in DOMAIN sessions \cup {segment.sessionId} |->
                                IF id = segment.sessionId THEN segment
                                                          ELSE sessions[id]]
              /\ writer' = writer \cup
                             {<<"focus_sessions", segment.sessionId, e>>}
              /\ IF idx[e] < Len(sessionSegments[e])
                 THEN /\ idx' = [idx EXCEPT ![e] = @ + 1]
                      /\ UNCHANGED pc
                 ELSE /\ idx' = [idx EXCEPT ![e] = 0]
                      /\ pc' = [pc EXCEPT ![e] = "findByUserId"]
              /\ UNCHANGED outcome
  /\ UNCHANGED <<streaks, command, sessionSegments, uniqueDates, userStreak,
                 faults, repeat, applied, committed, failedAt, retry>>
  /\ UNCHANGED <<entityVars, splitVars, queryVars, createVars>>

\* updateUserStreak: findOrCreate awaits findByUserId.
FindByUserId(e) ==
  /\ pc[e] = "findByUserId"
  /\ LET existing == findByUserId(streaks, command[e].userId)
     IN  IF existing # NULL
         THEN /\ userStreak' = [userStreak EXCEPT ![e] = existing]
              /\ uniqueDates' = [uniqueDates EXCEPT
                                   ![e] = uniqueDatesOf(sessionSegments[e])]
              /\ idx' = [idx EXCEPT ![e] = 1]
              /\ pc' = [pc EXCEPT ![e] = "getTotalMinutesForDate"]
         ELSE /\ userStreak' = [userStreak EXCEPT
                   ![e] = UserStreak_createNew(command[e].userId, Now)]
              /\ pc' = [pc EXCEPT ![e] = "createStreak"]
              /\ UNCHANGED <<uniqueDates, idx>>
  /\ UNCHANGED <<sessions, streaks, command, sessionSegments, outcome, faults,
                 repeat, writer, applied, committed, failedAt, retry>>
  /\ UNCHANGED <<entityVars, splitVars, queryVars, createVars>>

\* findOrCreate awaits save(newStreak); then the date set is built.
CreateStreak(e) ==
  /\ pc[e] = "createStreak"
  /\ streaks' = upsert(streaks, toPrisma(userStreak[e]))
  /\ writer' = writer \cup {<<"user_streaks", command[e].userId, e>>}
  /\ uniqueDates' = [uniqueDates EXCEPT ![e] = uniqueDatesOf(sessionSegments[e])]
  /\ idx' = [idx EXCEPT ![e] = 1]
  /\ pc' = [pc EXCEPT ![e] = "getTotalMinutesForDate"]
  /\ UNCHANGED <<sessions, command, sessionSegments, userStreak, outcome,
                 faults, repeat, applied, committed, failedAt, retry>>
  /\ UNCHANGED <<entityVars, splitVars, queryVars, createVars>>

\* await getTotalMinutesForDate for one date, then the threshold test.
GetTotalMinutesForDate(e) ==
  /\ pc[e] = "getTotalMinutesForDate"
  /\ LET date == uniqueDates[e][idx[e]]
         totalMinutes == getTotalMinutesForDate(sessions, command[e].userId,
                                                date, command[e].timezone)
     IN  IF totalMinutes >= QUALIFIED_DAY_THRESHOLD_MINUTES
         THEN /\ userStreak' = [userStreak EXCEPT
                   ![e] = updateWithQualifiedDate(@, date, Now)]
              /\ applied' = [applied EXCEPT ![e] = @ \cup {date}]
         ELSE UNCHANGED <<userStreak, applied>>
  /\ IF idx[e] < Len(uniqueDates[e])
     THEN idx' = [idx EXCEPT ![e] = @ + 1] /\ UNCHANGED pc
     ELSE idx' = [idx EXCEPT ![e] = 0] /\ pc' = [pc EXCEPT ![e] = "saveStreak"]
  /\ UNCHANGED <<sessions, streaks, command, sessionSegments, uniqueDates,
                 outcome, faults, repeat, writer, committed, failedAt, retry>>
  /\ UNCHANGED <<entityVars, splitVars, queryVars, createVars>>

\* await streakRepository.save(userStreak); execute returns.
SaveStreak(e) ==
  /\ pc[e] = "saveStreak"
  /\ streaks' = upsert(streaks, toPrisma(userStreak[e]))
  /\ writer' = writer \cup {<<"user_streaks", command[e].userId, e>>}
  /\ committed' = [committed EXCEPT ![e] = TRUE]
  /\ Return(e, "ok")
  /\ UNCHANGED <<sessions, command, sessionSegments, uniqueDates, idx,
                 userStreak, faults, repeat, applied, failedAt, retry>>
  /\ UNCHANGED <<entityVars, splitVars, queryVars, createVars>>

\* A store operation rejects with a transient error; nothing catches it, so
\* execute rejects with it.
StoreFails(e) ==
  /\ pc[e] \in {"findById", "save", "findByUserId", "createStreak",
                "getTotalMinutesForDate", "saveStreak"}
  /\ faults < MaxFaults
  /\ faults' = faults + 1
  /\ failedAt' = [failedAt EXCEPT ![e] = pc[e]]
  /\ Return(e, "StorageError")
  /\ UNCHANGED <<sessions, streaks, command, sessionSegments, uniqueDates, idx,
                 userStreak, repeat, writer, applied, committed, retry>>
  /\ UNCHANGED <<entityVars, splitVars, queryVars, createVars>>

Next ==
  \/ \E e \in Execs, r \in Requests : Start(e, r)
  \/ \E e \in Execs : FindById(e)
  \/ \E e \in Execs : SaveSegment(e)
  \/ \E e \in Execs : FindByUserId(e)
  \/ \E e \in Execs : CreateStreak(e)
  \/ \E e \in Execs : GetTotalMinutesForDate(e)
  \/ \E e \in Execs : SaveStreak(e)
  \/ \E e \in Execs : StoreFails(e)

Spec == Init /\ [][Next]_vars

(***************************************************************************)
(* Serial reference: one AcceptSession run alone, with no other execution  *)
(* in flight and no store failure, as a function on the two tables.        *)
(***************************************************************************)
RECURSIVE SerialSave(_, _, _)
SerialSave(store, segments, i) ==
  IF i > Len(segments) THEN [store |-> store, thrown |-> FALSE]
  ELSE IF has(store, segments[i].sessionId)
  THEN [store |-> store, thrown |-> TRUE]
  ELSE SerialSave([id \in DOMAIN store \cup {segments[i].sessionId} |->
                     IF id = segments[i].sessionId THEN segments[i]
                                                   ELSE store[id]],
                  segments, i + 1)

RECURSIVE SerialApplyDates(_, _, _, _, _)
SerialApplyDates(store, c, us, dates, i) ==
  IF i > Len(dates) THEN us
  ELSE SerialApplyDates(store, c,
         IF getTotalMinutesForDate(store, c.userId, dates[i], c.timezone)
              >= QUALIFIED_DAY_THRESHOLD_MINUTES
         THEN updateWithQualifiedDate(us, dates[i], Now) ELSE us,
         dates, i + 1)

SerialExecute(db, c) ==
  LET session == FocusSession_createNew(c.sessionId, c.userId, c.startTime,
                                        c.endTime, c.timezone, Now)
      segments == splitByDay(session)
      saved == SerialSave(db.sessions, segments, 1)
      existing == findByUserId(db.streaks, c.userId)
      loaded == IF existing # NULL THEN existing
                ELSE UserStreak_createNew(c.userId, Now)
      final == SerialApplyDates(saved.store, c, loaded,
                                uniqueDatesOf(segments), 1)
  IN  IF findById(db.sessions, c.sessionId) # NULL THEN db
      ELSE IF session = NULL THEN db
      ELSE IF \E i \in 1..Len(segments) : segments[i] = NULL THEN db
      ELSE IF saved.thrown THEN [db EXCEPT !.sessions = saved.store]
      ELSE [sessions |-> saved.store,
            streaks |-> upsert(db.streaks, toPrisma(final))]

RECURSIVE SerialRun(_, _, _)
SerialRun(db, order, i) ==
  IF i > Len(order) THEN db
  ELSE SerialRun(SerialExecute(db, command[order[i]]), order, i + 1)

\* All orders in which the executions of E can run one after another.
Orders(E) ==
  {o \in [1..Cardinality(E) -> E] : \A i, j \in 1..Cardinality(E) :
                                       o[i] = o[j] => i = j}

Called == {e \in Execs : pc[e] # "idle"}

(***************************************************************************)
(* Claims about AcceptSession (checked under Spec).                        *)
(***************************************************************************)

\* C1: for every session AcceptSession has already ingested, also one that
\* was split over several civil days, a later call with the same sessionId
\* returns successfully; no DuplicateSession or other error of the handler
\* reaches the caller (a failing store is not the handler's error).
C1_RepeatCallSucceeds ==
  \A e \in Execs :
    (repeat[e] /\ pc[e] = "done" /\ outcome[e] # "StorageError")
       => outcome[e] = "ok"

\* C2: a call that repeats an already ingested sessionId and payload leaves
\* the session store and the streak aggregates exactly as they were: no step
\* of the repeated execution changes either table.
C2_RepeatChangesNothing ==
  [][\A e \in Execs :
       (repeat[e] /\ <<pc[e], idx[e]>>' # <<pc[e], idx[e]>>)
          => (sessions' = sessions /\ streaks' = streaks)]_vars

\* C2 witness: the split session X and the later session Y are ingested (the
\* aggregate stands at Y's date) and a repeated call for X has gone through
\* its store operations and returned.
C2_Witness ==
  \E e \in Execs :
    /\ repeat[e]
    /\ command[e].sessionId = "X"
    /\ pc[e] = "done"
    /\ outcome[e] # "StorageError"
    /\ "Y" \in DOMAIN sessions
    /\ "u1" \in DOMAIN streaks
    /\ toDomain(streaks["u1"]).lastQualifiedDate = <<2025, 1, 17>>

\* C3: executions for the same user with distinct sessionIds are serialized:
\* when all of them have returned successfully, with no store failure, the
\* stored aggregate equals the one produced by running them one after
\* another in some order.
C3_SerializedPerUser ==
  (/\ Cardinality(Called) >= 2
   /\ \A e \in Called : pc[e] = "done" /\ outcome[e] = "ok"
   /\ \A e, f \in Called :
        /\ command[e].userId = command[f].userId
        /\ (e # f => command[e].sessionId # command[f].sessionId)
   /\ faults = 0)
  => \E o \in Orders(Called) :
       SerialRun([sessions |-> EmptyTable, streaks |-> EmptyTable], o, 1).streaks
         = streaks

\* C4: when two executions for the same sessionId and payload race, only
\* one of them writes anything: the stored segments come from a single
\* execution and no qualifying date of that session is applied by both.
C4_DuplicateRaceSingleWinner ==
  \A e, f \in Execs :
    (e # f /\ pc[e] # "idle" /\ pc[f] # "idle" /\ command[e] = command[f])
       => /\ ~(Wrote(e) /\ Wrote(f))
          /\ applied[e] \cap applied[f] = {}

\* C4 witness: two executions for Y both passed the idempotency check (each
\* found nothing and built its segments); one completed, the other was
\* turned away by the duplicate key.
C4_Witness ==
  \E e, f \in Execs :
    /\ e # f
    /\ command[e] # NULL /\ command[e] = command[f]
    /\ command[e].sessionId = "Y"
    /\ Len(sessionSegments[e]) > 0 /\ Len(sessionSegments[f]) > 0
    /\ outcome[e] = "ok" /\ committed[e]
    /\ outcome[f] = "FocusSessionAlreadyExists"

\* C5: the idempotency check, the segment persistence and the aggregate
\* update are one atomic unit: an execution that aborts because a segment
\* save, the minute-sum lookup or the aggregate save failed leaves none of
\* its effects behind.
C5_AbortLeavesNoEffects ==
  \A e \in Execs :
    failedAt[e] \in {"save", "getTotalMinutesForDate", "saveStreak"}
       => ~Wrote(e)

\* C6: if an execution fails on a storage error after persisting at least
\* one segment and the request is retried until a call returns successfully,
\* every civil date of the session whose cumulative minutes reach the
\* threshold has been applied to the user's aggregate as a qualifying date.
C6_RetryLosesNothing ==
  \A e, f \in Execs :
    (/\ outcome[e] = "StorageError" /\ Persisted(e)
     /\ retry[f] /\ command[f] = command[e]
     /\ pc[f] = "done" /\ outcome[f] = "ok")
    => \A i \in 1..Len(sessionSegments[e]) :
         LET d == getQualifiedDate(sessionSegments[e][i])
         IN  getTotalMinutesForDate(sessions, command[e].userId, d,
                                    command[e].timezone)
               >= QUALIFIED_DAY_THRESHOLD_MINUTES
             => \E g \in Execs :
                  /\ committed[g]
                  /\ command[g].userId = command[e].userId
                  /\ d \in applied[g]

(***************************************************************************)
(* UserStreak entity on its own: operations applied to one aggregate made  *)
(* by createNew.  The clock is the number of operations applied.           *)
(***************************************************************************)
MaxOps == 5

EntityDates ==
  { <<2024, 2, 28>>, <<2024, 2, 29>>, <<2024, 3, 1>>,
    <<2024, 12, 31>>, <<2025, 1, 1>>, <<2025, 1, 2>> }

UpdateWithQualifiedDate(d) ==
  /\ Len(history) < MaxOps
  /\ prevStreak' = streak
  /\ streak' = updateWithQualifiedDate(streak, d, Len(history) + 1)
  /\ history' = Append(history, [kind |-> "updateWithQualifiedDate", date |-> d])
  /\ UNCHANGED <<handlerVars, splitVars, queryVars, createVars>>

ResetStreak ==
  /\ Len(history) < MaxOps
  /\ prevStreak' = streak
  /\ streak' = resetStreak(streak, Len(history) + 1)
  /\ history' = Append(history, [kind |-> "resetStreak", date |-> NULL])
  /\ UNCHANGED <<handlerVars, splitVars, queryVars, createVars>>

NextStreak ==
  \/ \E d \in EntityDates : UpdateWithQualifiedDate(d)
  \/ ResetStreak

SpecStreak == Init /\ [][NextStreak]_vars

\* The operation applied last, and whether it was updateWithQualifiedDate.
LastOp == history[Len(history)]

Updated == Len(history) > 0 /\ LastOp.kind = "updateWithQualifiedDate"

Max(a, b) == IF a >= b THEN a ELSE b

\* The Gregorian calendar stated directly: leap years, month lengths and
\* the successor of a civil date (used to state the claims, not by the code).
IsLeapYear(y) == (y % 4 = 0 /\ y % 100 # 0) \/ y % 400 = 0

DaysInMonth(y, m) ==
  IF m = 2 THEN (IF IsLeapYear(y) THEN 29 ELSE 28)
  ELSE IF m \in {4, 6, 9, 11} THEN 30 ELSE 31

NextCivilDay(c) ==
  IF c[3] < DaysInMonth(c[1], c[2]) THEN <<c[1], c[2], c[3] + 1>>
  ELSE IF c[2] < 12 THEN <<c[1], c[2] + 1, 1>>
  ELSE <<c[1] + 1, 1, 1>>

\* a is a later civil date than b.
CivilAfter(a, b) == DateStringLess(b, a)

(***************************************************************************)
(* Claims about the streak transition (checked under SpecStreak).          *)
(***************************************************************************)

\* C7: when updateWithQualifiedDate(d) is applied to an aggregate whose
\* lastQualifiedDate is null, the result has currentStreak = 1,
\* longestStreak = max(previous longestStreak, 1), lastQualifiedDate = d and
\* qualifiedDaysCount = previous qualifiedDaysCount + 1.
C7_FirstEverTransition ==
  (Updated /\ prevStreak.lastQualifiedDate = NULL) =>
     /\ streak.currentStreak = 1
     /\ streak.longestStreak = Max(prevStreak.longestStreak, 1)
     /\ streak.lastQualifiedDate = LastOp.date
     /\ streak.qualifiedDaysCount = prevStreak.qualifiedDaysCount + 1

\* C8: when updateWithQualifiedDate(d) is applied and d is the calendar day
\* right after lastQualifiedDate (also across month, year and leap-day
\* boundaries), currentStreak grows by 1, longestStreak becomes
\* max(longestStreak, new currentStreak), lastQualifiedDate becomes d and
\* qualifiedDaysCount grows by 1.
C8_ConsecutiveIncrement ==
  (/\ Updated
   /\ prevStreak.lastQualifiedDate # NULL
   /\ LastOp.date = NextCivilDay(prevStreak.lastQualifiedDate)) =>
     /\ streak.currentStreak = prevStreak.currentStreak + 1
     /\ streak.longestStreak =
          Max(prevStreak.longestStreak, prevStreak.currentStreak + 1)
     /\ streak.lastQualifiedDate = LastOp.date
     /\ streak.qualifiedDaysCount = prevStreak.qualifiedDaysCount + 1

\* C8 witness: Feb 28, Feb 29 and Mar 1 of a leap year applied in a row; the
\* third application raises the streak and the high-water mark to 3.
C8_Witness ==
  /\ Len(history) = 3
  /\ history[1].date = <<2024, 2, 28>>
  /\ history[2].date = <<2024, 2, 29>>
  /\ history[3].date = <<2024, 3, 1>>
  /\ streak.currentStreak = 3
  /\ streak.longestStreak = 3

\* C9: when updateWithQualifiedDate(d) is applied and d is more than one
\* calendar day after lastQualifiedDate, currentStreak becomes 1,
\* longestStreak keeps its value, lastQualifiedDate becomes d and
\* qualifiedDaysCount grows by 1.
C9_GapReset ==
  (/\ Updated
   /\ prevStreak.lastQualifiedDate # NULL
   /\ CivilAfter(LastOp.date, NextCivilDay(prevStreak.lastQualifiedDate))) =>
     /\ streak.currentStreak = 1
     /\ streak.longestStreak = prevStreak.longestStreak
     /\ streak.lastQualifiedDate = LastOp.date
     /\ streak.qualifiedDaysCount = prevStreak.qualifiedDaysCount + 1

\* C9 witness: a streak of 2 (Feb 28, Feb 29) followed by Dec 31 of the
\* same year; the streak falls to 1 and the high-water mark stays 2.
C9_Witness ==
  /\ Len(history) = 3
  /\ history[1].date = <<2024, 2, 28>>
  /\ history[2].date = <<2024, 2, 29>>
  /\ history[3].date = <<2024, 12, 31>>
  /\ prevStreak.currentStreak = 2
  /\ streak.currentStreak = 1
  /\ streak.longestStreak = 2

C11_SameDayIdempotence ==
  (/\ Updated
   /\ prevStreak.lastQualifiedDate # NULL
   /\ LastOp.date = prevStreak.lastQualifiedDate) =>
     /\ streak.currentStreak = prevStreak.currentStreak
     /\ streak.longestStreak = prevStreak.longestStreak
     /\ streak.lastQualifiedDate = prevStreak.lastQualifiedDate
     /\ streak.qualifiedDaysCount = prevStreak.qualifiedDaysCount
     /\ streak.updatedAt = Len(history)
     /\ streak.updatedAt # prevStreak.updatedAt

\* C11 witness: Feb 28 and Feb 29 build a streak of 2, then Feb 29 is applied
\* three more times; the counters still read 2 and the timestamp moved on.
C11_Witness ==
  /\ Len(history) = 5
  /\ history[1].date = <<2024, 2, 28>>
  /\ \A i \in 2..5 : history[i].date = <<2024, 2, 29>>
  /\ streak.currentStreak = 2
  /\ streak.qualifiedDaysCount = 2
  /\ streak.updatedAt = 5

\* The aggregate after the first k operations of history, replayed from
\* createNew (k = Len(history) gives streak itself).
RECURSIVE StreakAfter(_)
StreakAfter(k) ==
  IF k = 0 THEN UserStreak_createNew("u1", 0)
  ELSE IF history[k].kind = "updateWithQualifiedDate"
  THEN updateWithQualifiedDate(StreakAfter(k - 1), history[k].date, k)
  ELSE resetStreak(StreakAfter(k - 1), k)

\* Runs of consecutive calendar dates inside a set of dates.
RECURSIVE RunEndingAt(_, _)
RunEndingAt(dates, d) ==
  IF \E p \in dates : NextCivilDay(p) = d
  THEN 1 + RunEndingAt(dates, CHOOSE p \in dates : NextCivilDay(p) = d)
  ELSE 1

LongestRun(dates) ==
  CHOOSE n \in 0..Cardinality(dates) :
    /\ \A d \in dates : RunEndingAt(dates, d) <= n
    /\ (dates # {} => \E d \in dates : RunEndingAt(dates, d) = n)

HistoryDates == {history[i].date : i \in 1..Len(history)}

\* Only updateWithQualifiedDate was called, with dates that never go back.
AscendingHistory ==
  /\ \A i \in 1..Len(history) : history[i].kind = "updateWithQualifiedDate"
  /\ \A i, j \in 1..Len(history) :
       i < j => ~CivilAfter(history[i].date, history[j].date)

\* C12: when qualifying dates are applied in ascending order to an aggregate
\* made by createNew, currentStreak is the length of the maximal run of
\* consecutive calendar dates ending at lastQualifiedDate among the dates
\* applied so far, and longestStreak is the length of the longest such run.
C12_StreakIsRunLength ==
  (AscendingHistory /\ Len(history) > 0) =>
     /\ streak.lastQualifiedDate = history[Len(history)].date
     /\ streak.currentStreak = RunEndingAt(HistoryDates, streak.lastQualifiedDate)
     /\ streak.longestStreak = LongestRun(HistoryDates)

\* C12 witness: Feb 28, Feb 29, Mar 1 (a run of 3), then Dec 31 and Jan 1 (a
\* run of 2): currentStreak 2, longestStreak 3.
C12_Witness ==
  /\ Len(history) = 5
  /\ history[1].date = <<2024, 2, 28>>
  /\ history[2].date = <<2024, 2, 29>>
  /\ history[3].date = <<2024, 3, 1>>
  /\ history[4].date = <<2024, 12, 31>>
  /\ history[5].date = <<2025, 1, 1>>
  /\ streak.currentStreak = 2
  /\ streak.longestStreak = 3

\* C13: over any sequence of updateWithQualifiedDate and resetStreak calls,
\* longestStreak never decreases and is at least every currentStreak value
\* the aggregate has held so far.
C13_LongestIsHighWaterMark ==
  \A k \in 0..Len(history) :
    /\ streak.longestStreak >= StreakAfter(k).longestStreak
    /\ streak.longestStreak >= StreakAfter(k).currentStreak

\* C14: no updateWithQualifiedDate or resetStreak call, in any sequence,
\* lowers qualifiedDaysCount.
C14_CountNeverDecreases ==
  \A k \in 0..Len(history) :
    streak.qualifiedDaysCount >= StreakAfter(k).qualifiedDaysCount

\* C15 as stated: in every state reachable from createNew by
\* updateWithQualifiedDate and resetStreak, lastQualifiedDate is null exactly
\* when qualifiedDaysCount = 0.
C15_NullIffNeverQualified ==
  (streak.lastQualifiedDate = NULL) <=> (streak.qualifiedDaysCount = 0)

\* No qualifying date was applied after createNew or after the last reset.
NoDateSinceReset ==
  \/ Len(history) = 0
  \/ LastOp.kind = "resetStreak"

\* C15 amended: lastQualifiedDate is null exactly when no qualifying date was
\* applied since createNew or the last resetStreak; a non-null
\* lastQualifiedDate implies qualifiedDaysCount >= 1, and
\* qualifiedDaysCount = 0 implies lastQualifiedDate is null.
C15_NullIffNoDateSinceReset ==
  /\ (streak.lastQualifiedDate = NULL) <=> NoDateSinceReset
  /\ streak.lastQualifiedDate # NULL => streak.qualifiedDaysCount >= 1
  /\ streak.qualifiedDaysCount = 0 => streak.lastQualifiedDate = NULL

\* C15 witness: two dates were counted and the streak was then reset: the
\* date is null while the lifetime count is 2.
C15_Witness ==
  /\ Len(history) = 3
  /\ LastOp.kind = "resetStreak"
  /\ prevStreak.qualifiedDaysCount = 2
  /\ streak.lastQualifiedDate = NULL
  /\ streak.qualifiedDaysCount = 2

(***************************************************************************)
(* Ingestion one call at a time: every AcceptSession call returns before   *)
(* the next one is dispatched and no store operation fails.                *)
(***************************************************************************)
\* AcceptSession payloads of the one-at-a-time runs:
\*   X, Y  as above (u1, New York: Jan 15/16 across midnight; Jan 17, 30 min)
\*   L1    10:00 - 10:30 Jan 14 New York time (u1)
\*   L2    12:00 - 12:30 Jan 14 New York time (u1)
\*   P29   10:00 - 10:29 Jan 17 UTC (u2)
\*   P1    11:00 - 11:01 Jan 17 UTC (u2)
\*   H     23:30 Jan 18 - 00:30 Jan 19 New York time (u3)
\*   Z     as above (u2, end = start)
\*   a payload that reuses the id "Y" with its end before its start (u1)
\*   X-day0  10:00 - 10:30 Jan 18 UTC (u2), named like X's first segment
IngestRequests ==
  {r \in Requests : r.sessionId \in {"X", "Y", "Z"}} \cup
  { [sessionId |-> "Y", userId |-> "u1", timezone |-> "America/New_York",
     startTime |-> UtcInstant(<<2025, 1, 17>>, 930),
     endTime |-> UtcInstant(<<2025, 1, 17>>, 900)] } \cup
  { [sessionId |-> "L1", userId |-> "u1", timezone |-> "America/New_York",
     startTime |-> UtcInstant(<<2025, 1, 14>>, 900),
     endTime |-> UtcInstant(<<2025, 1, 14>>, 930)],
    [sessionId |-> "L2", userId |-> "u1", timezone |-> "America/New_York",
     startTime |-> UtcInstant(<<2025, 1, 14>>, 1020),
     endTime |-> UtcInstant(<<2025, 1, 14>>, 1050)],
    [sessionId |-> "P29", userId |-> "u2", timezone |-> "UTC",
     startTime |-> UtcInstant(<<2025, 1, 17>>, 600),
     endTime |-> UtcInstant(<<2025, 1, 17>>, 629)],
    [sessionId |-> "P1", userId |-> "u2", timezone |-> "UTC",
     startTime |-> UtcInstant(<<2025, 1, 17>>, 660),
     endTime |-> UtcInstant(<<2025, 1, 17>>, 661)],
    [sessionId |-> "X-day0", userId |-> "u2", timezone |-> "UTC",
     startTime |-> UtcInstant(<<2025, 1, 18>>, 600),
     endTime |-> UtcInstant(<<2025, 1, 18>>, 630)],
    [sessionId |-> "H", userId |-> "u3", timezone |-> "America/New_York",
     startTime |-> UtcInstant(<<2025, 1, 19>>, 270),
     endTime |-> UtcInstant(<<2025, 1, 19>>, 330)] }

\* The caller awaits the response before sending the next request.
Submit(e, r) ==
  /\ InFlight = {}
  /\ Start(e, r)

\* Users whose streak is queried; u9 never sends a session.
QueryUsers == {"u1", "u2", "u9"}

\* Variant: an unknown user is an error.
execute_UnknownUserFails(table, userId) ==
  LET userStreak_ == findByUserId(table, userId)
  IN  IF userStreak_ = NULL
      THEN [userId |-> userId, error |-> "NotFound"]
      ELSE [userId |-> userStreak_.userId,
            currentStreak |-> userStreak_.currentStreak,
            longestStreak |-> userStreak_.longestStreak,
            lastQualifiedDate |-> userStreak_.lastQualifiedDate,
            qualifiedDaysCount |-> userStreak_.qualifiedDaysCount]

\* GetUserStreakQueryHandler.execute
execute(table, userId) ==
  LET userStreak_ == findByUserId(table, userId)
  IN  IF userStreak_ = NULL
      THEN [userId |-> userId,
            currentStreak |-> 0,
            longestStreak |-> 0,
            lastQualifiedDate |-> NULL,
            qualifiedDaysCount |-> 0]
      ELSE [userId |-> userStreak_.userId,
            currentStreak |-> userStreak_.currentStreak,
            longestStreak |-> userStreak_.longestStreak,
            lastQualifiedDate |-> userStreak_.lastQualifiedDate,
            qualifiedDaysCount |-> userStreak_.qualifiedDaysCount]

\* GET users/:userId/streak; the query has one await, findByUserId.
GetUserStreak(u) ==
  /\ queryResult' = execute(streaks, u)
  /\ UNCHANGED <<handlerVars, entityVars, splitVars, createVars>>

NextIngest ==
  \/ \E e \in Execs, r \in IngestRequests : Submit(e, r)
  \/ \E u \in QueryUsers : GetUserStreak(u)
  \/ \E e \in Execs : FindById(e)
  \/ \E e \in Execs : SaveSegment(e)
  \/ \E e \in Execs : FindByUserId(e)
  \/ \E e \in Execs : CreateStreak(e)
  \/ \E e \in Execs : GetTotalMinutesForDate(e)
  \/ \E e \in Execs : SaveStreak(e)

SpecIngest == Init /\ [][NextIngest]_vars

\* Minutes the user has stored on a civil date, each stored session counted
\* on the civil date of its start in its own timezone.
MinutesOn(store, userId, date) ==
  SumDurations(store, {id \in DOMAIN store :
                         /\ store[id].userId = userId
                         /\ getQualifiedDate(store[id]) = date})

\* The civil dates on which the user's stored minutes reach the threshold.
QualifiedDatesOf(userId) ==
  {d \in {getQualifiedDate(sessions[id]) : id \in DOMAIN sessions} :
     MinutesOn(sessions, userId, d) >= 30}

\* The user had no aggregate when execution e was dispatched.
NewUser(e) ==
  ~\E d \in Execs :
     /\ d < e
     /\ <<"user_streaks", command[e].userId, d>> \in writer

\* C16: after any sequence of accepted ingestions, qualifiedDaysCount of a
\* user equals the number of distinct civil dates of that user whose
\* cumulative minutes reached the threshold, each date counted once, also
\* when several sessions arrive for one date earlier than lastQualifiedDate.
C16_CountIsDistinctQualifiedDates ==
  InFlight = {} =>
    \A u \in DOMAIN streaks :
      toDomain(streaks[u]).qualifiedDaysCount = Cardinality(QualifiedDatesOf(u))

\* C17: a civil date touched by the new segments is fed to the aggregate
\* exactly when the user's stored minutes for that date (the new segments
\* and everything persisted before) total at least 30.
C17_ThresholdOnCumulativeTotal ==
  [][\A e \in Execs :
       (pc[e] = "getTotalMinutesForDate" /\ idx'[e] # idx[e]) =>
         LET date == uniqueDates[e][idx[e]]
         IN  (date \in applied'[e]) <=>
               (MinutesOn(sessions, command[e].userId, date) >= 30)]_vars

\* C17 witness: P29 (29 minutes on Jan 17) was ingested without the date
\* being fed; the one-minute session P1 then brought the total to exactly 30
\* and the date was fed.
C17_Witness ==
  \E e1, e2 \in Execs :
    /\ e1 < e2
    /\ committed[e1] /\ command[e1].sessionId = "P29" /\ applied[e1] = {}
    /\ committed[e2] /\ command[e2].sessionId = "P1"
    /\ applied[e2] = {<<2025, 1, 17>>}
    /\ MinutesOn(sessions, "u2", <<2025, 1, 17>>) = 30

\* C18: the dates of one ingestion are applied in ascending order; a session
\* crossing one midnight whose two civil days both reach the threshold takes
\* a new user to currentStreak = 2 with lastQualifiedDate the later date.
C18_AscendingDatesOfOneIngestion ==
  \A e \in Execs :
    /\ \A i, j \in 1..Len(uniqueDates[e]) :
         i < j => DaysFromCivil(uniqueDates[e][i]) < DaysFromCivil(uniqueDates[e][j])
    /\ (/\ committed[e]
        /\ NewUser(e)
        /\ Len(sessionSegments[e]) = 2
        /\ \A i \in 1..2 : sessionSegments[e][i].durationMinutes >= 30) =>
          /\ userStreak[e].currentStreak = 2
          /\ userStreak[e].lastQualifiedDate =
               getQualifiedDate(sessionSegments[e][2])
          /\ userStreak[e].qualifiedDaysCount = 2

\* C18 witness: X (23:00 Jan 15 - 01:00 Jan 16 local) was ingested for the
\* new user u1 and stored as a streak of 2 ending on Jan 16.
C18_Witness ==
  /\ command[1] # NULL
  /\ command[1].sessionId = "X"
  /\ committed[1]
  /\ InFlight = {}
  /\ applied[1] = {<<2025, 1, 15>>, <<2025, 1, 16>>}
  /\ toDomain(streaks["u1"]).currentStreak = 2
  /\ toDomain(streaks["u1"]).lastQualifiedDate = <<2025, 1, 16>>

\* The payload runs from 23:30 to 00:30 local time, 60 minutes.
LateEveningHour(c) ==
  /\ toZonedTime(c.startTime, c.timezone).ms = 1410 * MsPerMinute
  /\ c.endTime = MkDate(c.startTime.day, c.startTime.ms + 60 * MsPerMinute)

\* C19: a 60-minute session from 23:30 to 00:30 local time is split at local
\* midnight into two segments of 30 minutes each, and both civil dates
\* qualify.
C19_MidnightSplitThirtyThirty ==
  \A e \in Execs :
    (/\ committed[e]
     /\ LateEveningHour(command[e])) =>
       /\ Len(sessionSegments[e]) = 2
       /\ sessionSegments[e][1].durationMinutes = 30
       /\ sessionSegments[e][2].durationMinutes = 30
       /\ applied[e] = {getQualifiedDate(sessionSegments[e][1]),
                        getQualifiedDate(sessionSegments[e][2])}

(***************************************************************************)
(* Segmentation: splitByDay applied to one FocusSession.                   *)
(***************************************************************************)
\* Start instants, as milliseconds into 2025-01-15 UTC: midnight, 23:30,
\* 23:59:30 and midnight New York time, 10:00, 23:00, 23:30, 23:59:30 and
\* 23:59:59.999 UTC.
SplitStartMs ==
  {0, 270 * MsPerMinute, 299 * MsPerMinute + 30000, 300 * MsPerMinute,
   600 * MsPerMinute, 1380 * MsPerMinute, 1410 * MsPerMinute,
   1439 * MsPerMinute + 30000, MsPerDay - 1}

\* Interval lengths in milliseconds: one minute to two days.
SplitLengthMs ==
  {MsPerMinute, 30 * MsPerMinute - 1, 30 * MsPerMinute, 60 * MsPerMinute,
   90 * MsPerMinute, MsPerDay, MsPerDay + 30 * MsPerMinute + 1,
   MsPerDay + 60 * MsPerMinute, 2 * MsPerDay}

\* The sessions FocusSession.createNew accepts for these intervals, and
\* one of 03:00 - 03:30 UTC on Jan 16 recorded in New York time.
SplitSessions ==
  ({FocusSession_createNew("S", "u1",
                           MkDate(DaysFromCivil(<<2025, 1, 15>>), st),
                           MkDate(DaysFromCivil(<<2025, 1, 15>>), st + len),
                           tz, Now) :
      st \in SplitStartMs, len \in SplitLengthMs, tz \in Timezones}
   \cup {FocusSession_createNew("S", "u1",
                                UtcInstant(<<2025, 1, 16>>, 180),
                                UtcInstant(<<2025, 1, 16>>, 210),
                                "America/New_York", Now)}) \ {NULL}

InitSplit ==
  /\ InitHandler
  /\ InitEntity
  /\ focusSession \in SplitSessions
  /\ daySegments = <<>>
  /\ queryResult = NULL
  /\ streakProps = NULL
  /\ created = NotCreated

SplitByDay ==
  /\ daySegments = <<>>
  /\ daySegments' = splitByDay(focusSession)
  /\ UNCHANGED <<focusSession, handlerVars, entityVars, queryVars, createVars>>

NextSplit == SplitByDay

SpecSplit == InitSplit /\ [][NextSplit]_vars

\* splitByDay returned (no segment construction threw).
Segmented ==
  /\ daySegments # <<>>
  /\ \A i \in 1..Len(daySegments) : daySegments[i] # NULL

\* C20: the segments partition the input: the first starts at the session
\* start, the last ends at the session end, every other segment starts at
\* the instant the previous one ends, and no two overlap.
C20_SegmentsPartitionInput ==
  Segmented =>
    /\ daySegments[1].startTime = focusSession.startTime
    /\ daySegments[Len(daySegments)].endTime = focusSession.endTime
    /\ \A i \in 1..(Len(daySegments) - 1) :
         daySegments[i + 1].startTime = daySegments[i].endTime

\* Civil day number and millisecond of the day of an instant on the wall
\* clock of a timezone, from the zone's offset alone.
LocalDay(instant, timezone) ==
  instant.day +
    (instant.ms + TimezoneOffsetMinutes(timezone) * MsPerMinute) \div MsPerDay

LocalMs(instant, timezone) ==
  (instant.ms + TimezoneOffsetMinutes(timezone) * MsPerMinute) % MsPerDay

\* The instant one millisecond before the given one.
JustBefore(instant) == MkDate(instant.day - 1, instant.ms + MsPerDay - 1)

\* First and last civil day the interval [startTime, endTime) touches.
FirstDayTouched ==
  LocalDay(focusSession.startTime, focusSession.timezone)

LastDayTouched ==
  LocalDay(JustBefore(focusSession.endTime), focusSession.timezone)

C22_NonSplitting ==
  (Segmented /\ FirstDayTouched = LastDayTouched) =>
     daySegments = <<focusSession>>

\* The segments' minutes add up.
RECURSIVE SumMinutes(_, _)
SumMinutes(segs, i) ==
  IF i > Len(segs) THEN 0
  ELSE segs[i].durationMinutes + SumMinutes(segs, i + 1)

\* C23: for every session split into several segments, the segments'
\* durationMinutes sum to at most the whole-interval minute count and fall
\* short of it by at most (number of segments - 1).
C23_MinuteTolerance ==
  (Segmented /\ Len(daySegments) >= 2) =>
     /\ SumMinutes(daySegments, 1) <= focusSession.durationMinutes
     /\ focusSession.durationMinutes - SumMinutes(daySegments, 1) <=
          Len(daySegments) - 1

C25_CivilDateInSessionTimezone ==
  Segmented =>
    \A i \in 1..Len(daySegments) :
      /\ getQualifiedDate(daySegments[i]) =
           CivilFromDays(LocalDay(daySegments[i].startTime,
                                  focusSession.timezone))
      /\ i > 1 => LocalMs(daySegments[i].startTime, focusSession.timezone) = 0

\* C25 witness: the session starting at 03:00 UTC on Jan 16, recorded in
\* New York time (UTC-5), counts for Jan 15.
C25_Witness ==
  /\ Segmented
  /\ focusSession.timezone = "America/New_York"
  /\ focusSession.startTime = UtcInstant(<<2025, 1, 16>>, 180)
  /\ format(focusSession.startTime) = <<2025, 1, 16>>
  /\ getQualifiedDate(daySegments[1]) = <<2025, 1, 15>>

C30_InvalidIntervalRejected ==
  \A e \in Execs :
    (/\ pc[e] = "done"
     /\ ~isAfter(command[e].endTime, command[e].startTime)) =>
       /\ outcome[e] = "ValidationError"
       /\ ~Wrote(e)

(***************************************************************************)
(* Two users ingesting at the same time, no store failure.                 *)
(***************************************************************************)
\* Y is u1's 30 minutes on Jan 17 (New York); P29 and P1 are u2's 29 and 1
\* minutes on Jan 17 (UTC).
UserRequests ==
  {r \in IngestRequests :
     /\ r.sessionId \in {"Y", "P29", "P1"}
     /\ isAfter(r.endTime, r.startTime)}

NextUsers ==
  \/ \E e \in Execs, r \in UserRequests : Start(e, r)
  \/ \E e \in Execs : FindById(e)
  \/ \E e \in Execs : SaveSegment(e)
  \/ \E e \in Execs : FindByUserId(e)
  \/ \E e \in Execs : CreateStreak(e)
  \/ \E e \in Execs : GetTotalMinutesForDate(e)
  \/ \E e \in Execs : SaveStreak(e)

SpecUsers == Init /\ [][NextUsers]_vars

Users == {r.userId : r \in UserRequests}

\* The user's row of user_streaks, NULL when there is none.
RowOf(table, userId) ==
  IF userId \in DOMAIN table THEN table[userId] ELSE NULL

\* The per-date minute totals the store computes for a user.
TotalsOf(store, userId) ==
  [d \in {<<2025, 1, 16>>, <<2025, 1, 17>>, <<2025, 1, 18>>},
   tz \in Timezones |-> getTotalMinutesForDate(store, userId, d, tz)]

\* This step was taken by execution e.
StepOf(e) ==
  \/ pc'[e] # pc[e]
  \/ idx'[e] # idx[e]
  \/ command'[e] # command[e]

\* C27: a step of an AcceptSession for one user changes neither another
\* user's streak aggregate nor the per-date minute totals computed for that
\* other user, whatever the interleaving with the other user's ingestions.
C27_UsersAreIndependent ==
  [][\A e \in Execs :
       StepOf(e) =>
         \A u \in Users \ {command'[e].userId} :
           /\ RowOf(streaks', u) = RowOf(streaks, u)
           /\ TotalsOf(sessions', u) = TotalsOf(sessions, u)]_vars

\* C27 witness: an ingestion of u1 and one of u2 are in flight together,
\* both past their segment saves, while u2 already has an aggregate from an
\* earlier ingestion.
C27_Witness ==
  \E e1, e2 \in Execs :
    /\ pc[e1] = "saveStreak" /\ command[e1].userId = "u1"
    /\ pc[e2] = "saveStreak" /\ command[e2].userId = "u2"
    /\ "u2" \in DOMAIN streaks
    /\ TotalsOf(sessions, "u1")[<<2025, 1, 17>>, "America/New_York"] = 30
    /\ TotalsOf(sessions, "u2")[<<2025, 1, 17>>, "UTC"] = 30

\* C28: the session store is insert-only: a save of a segment whose id is
\* already stored fails with the duplicate-session error (or the store is
\* unreachable) and changes nothing, and no step changes or removes a
\* stored session.
C28_SessionStoreInsertOnly ==
  [][/\ \A id \in DOMAIN sessions :
          id \in DOMAIN sessions' /\ sessions'[id] = sessions[id]
     /\ \A e \in Execs :
          (/\ pc[e] = "save"
           /\ StepOf(e)
           /\ sessionSegments[e][idx[e]].sessionId \in DOMAIN sessions) =>
             /\ outcome'[e] \in {"FocusSessionAlreadyExists", "StorageError"}
             /\ sessions' = sessions]_vars

\* C28 witness: a save was refused as a duplicate of a segment another
\* execution had stored, and that segment is still there.
C28_Witness ==
  \E e \in Execs :
    /\ outcome[e] = "FocusSessionAlreadyExists"
    /\ failedAt[e] = "none"
    /\ \E w \in writer :
         /\ w[1] = "focus_sessions"
         /\ w[3] # e
         /\ w[2] = sessionSegments[e][idx[e]].sessionId
         /\ w[2] \in DOMAIN sessions

(***************************************************************************)
(* Construction: UserStreak.create applied to given props.                 *)
(***************************************************************************)
\* Props as a caller or a stored row may hand them over.
CreateInputs ==
  [userId : {"u1"},
   currentStreak : -1..2,
   longestStreak : -1..2,
   lastQualifiedDate : {NULL, <<2025, 1, 15>>},
   qualifiedDaysCount : -1..2,
   updatedAt : {0}]

InitCreate ==
  /\ InitHandler
  /\ InitEntity
  /\ focusSession = NULL
  /\ daySegments = <<>>
  /\ queryResult = NULL
  /\ streakProps \in CreateInputs
  /\ created = NotCreated

\* UserStreak.create(props); value NULL stands for the thrown error.
Create ==
  /\ ~created.done
  /\ created' = [done |-> TRUE, value |-> UserStreak_create(streakProps)]
  /\ UNCHANGED <<streakProps, handlerVars, entityVars, splitVars, queryVars>>

NextCreate == Create

SpecCreate == InitCreate /\ [][NextCreate]_vars

\* C29: UserStreak.create fails whenever a numeric field is negative, and
\* whenever lastQualifiedDate is non-null while currentStreak is 0.
C29_CorruptAggregateRejected ==
  (/\ created.done
   /\ \/ streakProps.currentStreak < 0
      \/ streakProps.longestStreak < 0
      \/ streakProps.qualifiedDaysCount < 0
      \/ streakProps.lastQualifiedDate # NULL /\ streakProps.currentStreak = 0) =>
     created.value = NULL

\* C32: resetStreak sets currentStreak to 0 and lastQualifiedDate to null and
\* leaves longestStreak and qualifiedDaysCount unchanged.
C32_ResetStreakFrame ==
  (Len(history) > 0 /\ LastOp.kind = "resetStreak") =>
     /\ streak.currentStreak = 0
     /\ streak.lastQualifiedDate = NULL
     /\ streak.longestStreak = prevStreak.longestStreak
     /\ streak.qualifiedDaysCount = prevStreak.qualifiedDaysCount
     /\ streak.userId = prevStreak.userId

\* C32 witness: a streak of 3 over Feb 28, Feb 29 and Mar 1 was reset; the
\* high-water mark and the count still read 3.
C32_Witness ==
  /\ Len(history) = 4
  /\ LastOp.kind = "resetStreak"
  /\ prevStreak.currentStreak = 3
  /\ prevStreak.lastQualifiedDate = <<2024, 3, 1>>
  /\ streak.longestStreak = 3
  /\ streak.qualifiedDaysCount = 3

\* C34: in every state reachable from createNew by updateWithQualifiedDate
\* and resetStreak, currentStreak = 0 exactly when lastQualifiedDate is null,
\* so hasActiveStreak is true exactly when lastQualifiedDate is non-null.
C34_ZeroStreakIffNoDate ==
  /\ (streak.currentStreak = 0) <=> (streak.lastQualifiedDate = NULL)
  /\ hasActiveStreak(streak) <=> (streak.lastQualifiedDate # NULL)

\* C34 witness: a late date was applied after a reset and a fresh start, so
\* every kind of transition has acted and the streak is active.
C34_Witness ==
  /\ Len(history) = 4
  /\ history[1].kind = "updateWithQualifiedDate"
  /\ history[2].kind = "resetStreak"
  /\ history[3].date = <<2025, 1, 1>>
  /\ history[4].date = <<2024, 2, 28>>
  /\ hasActiveStreak(streak)
  /\ streak.currentStreak = 1

\* The latest of the dates applied so far.
LatestApplied ==
  CHOOSE d \in HistoryDates : \A o \in HistoryDates : ~CivilAfter(o, d)

\* C35: after any sequence of updateWithQualifiedDate calls, with no
\* resetStreak, on an aggregate made by createNew, lastQualifiedDate is the
\* latest date ever applied.
C35_LastDateNeverMovesBack ==
  (/\ Len(history) > 0
   /\ \A i \in 1..Len(history) : history[i].kind = "updateWithQualifiedDate") =>
     streak.lastQualifiedDate = LatestApplied

\* C35 witness: Jan 1 2025 was applied, then three earlier dates; the last
\* qualified date is still Jan 1 2025.
C35_Witness ==
  /\ Len(history) = 4
  /\ history[1].date = <<2025, 1, 1>>
  /\ history[2].date = <<2024, 12, 31>>
  /\ history[3].date = <<2024, 2, 28>>
  /\ history[4].date = <<2024, 2, 29>>
  /\ streak.lastQualifiedDate = <<2025, 1, 1>>

C33_ValidIntervalsAreSegmented ==
  daySegments # <<>> =>
    \A i \in 1..Len(daySegments) : daySegments[i] # NULL

\* No earlier call carried this sessionId.
FirstSubmission(e) ==
  ~\E d \in Execs :
     d < e /\ command[d] # NULL /\ command[d].sessionId = command[e].sessionId

\* C36: an AcceptSession whose sessionId was never submitted before is
\* neither skipped as already ingested nor rejected as a duplicate, whatever
\* was ingested earlier.
C36_DerivedIdsDoNotCollide ==
  \A e \in Execs :
    (pc[e] = "done" /\ FirstSubmission(e)) =>
       /\ outcome[e] # "FocusSessionAlreadyExists"
       /\ outcome[e] = "ok" => committed[e]

\* C37: findOrCreate never replaces a stored aggregate: when another writer
\* has saved the user's aggregate between findOrCreate's lookup and its own
\* save, that save leaves the stored aggregate as it is.
C37_FindOrCreateKeepsExisting ==
  [][\A e \in Execs :
       (/\ pc[e] = "createStreak"
        /\ pc'[e] = "getTotalMinutesForDate"
        /\ command[e].userId \in DOMAIN streaks) =>
          streaks'[command[e].userId] = streaks[command[e].userId]]_vars

\* C38: for the same stored sessions and every (userId, date, timezone) the
\* in-memory and the SQL repository return the same total from
\* getTotalMinutesForDate, also when stored sessions carry a timezone other
\* than the argument.
C38_RepositoriesAgree ==
  \A u \in {"u1", "u2", "u3"}, tz \in Timezones :
    \A d \in {CivilFromDays(n) :
                n \in DaysFromCivil(<<2025, 1, 13>>)..DaysFromCivil(<<2025, 1, 20>>)} :
      InMemory_getTotalMinutesForDate(sessions, u, d, tz) =
        getTotalMinutesForDate(sessions, u, d, tz)

====
